---- MODULE Spec2Model ----
(***************************************************************************)
(* A model of visualizer.py: the git dependency visualizer.                *)
(*                                                                         *)
(* Text is a sequence of one-character strings.  The three Cyrillic        *)
(* literals of the source are kept as single text elements under           *)
(* transliterated names (they hold no quote, whitespace or slash, and the  *)
(* code never looks inside them).                                          *)
(***************************************************************************)
EXTENDS Integers, Sequences, FiniteSets, TLC

VARIABLES
    pc,             \* position of the running call
    stack,          \* return positions of the callers, innermost first
    raised,         \* the exception that left the outermost call, or "none"
    printed,        \* what print() has written, in order
    log_status,     \* how `git log` ends: "ok", "nonzero", "notfound"
    log_stdout,     \* what `git log` writes when it ends "ok"
    commits,        \* get_git_commits' result / generate_mermaid_graph's input
    diff_log,       \* history: one record per get_commit_diff call
    commit_data,    \* the dict of generate_mermaid_graph, in insertion order
    idx,            \* position of the running for loop
    mermaid_graph,  \* the text under construction / handed to the renderer
    temp_exists,    \* whether the file temp.mmd exists
    temp_text,      \* the content of temp.mmd
    run_log,        \* history: outcome of each renderer invocation
    pending         \* exception in flight inside generate_png_from_mermaid

vars == << pc, stack, raised, printed, log_status, log_stdout, commits, diff_log,
           commit_data, idx, mermaid_graph, temp_exists, temp_text, run_log, pending >>

----------------------------------------------------------------------------
(* Bounds of the model *)

MaxLogLen == 5
MaxDiffLen == 5
MaxCommits == 2
MainLogLen == 3
MaxGraphLen == 3

----------------------------------------------------------------------------
(* Text *)

Whitespace == {" ", "\n"}

TextsOver(alphabet, n) == UNION {[1..k -> alphabet] : k \in 0..n}

\* str.strip() without arguments, left part
RECURSIVE LStrip(_)
LStrip(s) ==
    IF s # <<>> /\ Head(s) \in Whitespace THEN LStrip(Tail(s)) ELSE s

\* str.strip() without arguments, right part
RECURSIVE RStrip(_)
RStrip(s) ==
    IF s # <<>> /\ s[Len(s)] \in Whitespace
    THEN RStrip(SubSeq(s, 1, Len(s) - 1))
    ELSE s

Strip(s) == RStrip(LStrip(s))

\* index of the first line break of s, 0 when there is none
RECURSIVE FirstBreak(_, _)
FirstBreak(s, k) ==
    IF k > Len(s) THEN 0
    ELSE IF s[k] = "\n" THEN k
    ELSE FirstBreak(s, k + 1)

\* str.splitlines(): the lines without their line breaks; a final line break
\* opens no further line, and the empty text has no line
RECURSIVE SplitLines(_)
SplitLines(s) ==
    IF s = <<>> THEN <<>>
    ELSE LET k == FirstBreak(s, 1)
         IN  IF k = 0 THEN << s >>
             ELSE << SubSeq(s, 1, k - 1) >> \o SplitLines(SubSeq(s, k + 1, Len(s)))

\* length of the leading run of non-whitespace characters of s
RECURSIVE WordLen(_)
WordLen(s) ==
    IF s = <<>> \/ Head(s) \in Whitespace THEN 0 ELSE 1 + WordLen(Tail(s))

\* str.split() without arguments: the maximal runs of non-whitespace
RECURSIVE Split(_)
Split(s) ==
    LET t == LStrip(s)
    IN  IF t = <<>> THEN <<>>
        ELSE LET n == WordLen(t)
             IN  << SubSeq(t, 1, n) >> \o Split(SubSeq(t, n + 1, Len(t)))

----------------------------------------------------------------------------
(* Calls, returns and exceptions *)

RunOutcomes == {"ok", "nonzero", "notfound"}

\* a normal return to the caller, or the end of the run
Return == IF stack = <<>> THEN "done" ELSE Head(stack)

ReturnStack == IF stack = <<>> THEN <<>> ELSE Tail(stack)

----------------------------------------------------------------------------
(* get_git_commits *)

LogAlphabet == {"a", "b", " ", "\n"}

\* the for loop with a parent list cut to its first element
RECURSIVE MutParseLogLines(_)
MutParseLogLines(lines) ==
    IF lines = <<>> THEN [error |-> "none", commits |-> <<>>]
    ELSE LET parts == Split(Strip(Head(lines)))
         IN  IF parts = <<>>
             THEN [error |-> "IndexError", commits |-> <<>>]
             ELSE LET rest == MutParseLogLines(Tail(lines))
                      parent_hashes == IF Len(parts) > 1 THEN << parts[2] >> ELSE <<>>
                  IN  [error |-> rest.error,
                       commits |-> << <<parts[1], parent_hashes>> >> \o rest.commits]

\* one pass of the for loop body over the lines that are left: the entries
\* appended, or "IndexError" where parts[0] is taken of an empty list
RECURSIVE ParseLogLines(_)
ParseLogLines(lines) ==
    IF lines = <<>> THEN [error |-> "none", commits |-> <<>>]
    ELSE LET parts == Split(Strip(Head(lines)))
         IN  IF parts = <<>>
             THEN [error |-> "IndexError", commits |-> <<>>]
             ELSE LET rest == ParseLogLines(Tail(lines))
                      commit_hash == parts[1]
                      parent_hashes == IF Len(parts) > 1 THEN Tail(parts) ELSE <<>>
                  IN  [error |-> rest.error,
                       commits |-> << <<commit_hash, parent_hashes>> >> \o rest.commits]

ErrCommits == "Oshibka pri poluchenii kommitov"

get_git_commits ==
    /\ pc = "get_git_commits"
    /\ \/ /\ log_status = "notfound"
          /\ raised' = "FileNotFoundError"
          /\ pc' = "raised"
          /\ stack' = <<>>
          /\ UNCHANGED << printed, commits >>
       \/ /\ log_status = "nonzero"
          /\ printed' = Append(printed, ErrCommits)
          /\ commits' = <<>>
          /\ pc' = Return
          /\ stack' = ReturnStack
          /\ UNCHANGED raised
       \/ /\ log_status = "ok"
          /\ LET r == ParseLogLines(SplitLines(log_stdout))
             IN  IF r.error # "none"
                 THEN /\ raised' = r.error
                      /\ pc' = "raised"
                      /\ stack' = <<>>
                      /\ UNCHANGED commits
                 ELSE /\ commits' = r.commits
                      /\ pc' = Return
                      /\ stack' = ReturnStack
                      /\ UNCHANGED raised
          /\ UNCHANGED printed
    /\ UNCHANGED << log_status, log_stdout, diff_log, commit_data, idx,
                    mermaid_graph, temp_exists, temp_text, run_log, pending >>

Idle ==
    /\ raised = "none"
    /\ printed = <<>>
    /\ diff_log = <<>>
    /\ commit_data = <<>>
    /\ idx = 0
    /\ run_log = <<>>
    /\ pending = "none"
    /\ temp_text = <<>>

InitLog ==
    /\ Idle
    /\ pc = "get_git_commits"
    /\ stack = <<>>
    /\ log_status \in RunOutcomes
    /\ log_stdout \in TextsOver(LogAlphabet, MaxLogLen)
    /\ commits = <<>>
    /\ mermaid_graph = <<>>
    /\ temp_exists = FALSE

NextLog == get_git_commits

SpecLog == InitLog /\ [][NextLog]_vars

----------------------------------------------------------------------------
(* get_commit_diff *)

DiffAlphabet == {"a", "/", " ", "\n"}

\* index of the last "/" of p at or before k, 0 when there is none: p.rfind('/') + 1
RECURSIVE RFindSlash(_, _)
RFindSlash(p, k) ==
    IF k = 0 THEN 0
    ELSE IF p[k] = "/" THEN k
    ELSE RFindSlash(p, k - 1)

\* str.rstrip('/')
RECURSIVE RStripSlash(_)
RStripSlash(s) ==
    IF s # <<>> /\ s[Len(s)] = "/"
    THEN RStripSlash(SubSeq(s, 1, Len(s) - 1))
    ELSE s

\* os.path.dirname (posixpath): the head up to the last slash, its trailing
\* slashes dropped unless it is made of slashes only
Dirname(p) ==
    LET head == SubSeq(p, 1, RFindSlash(p, Len(p)))
    IN  IF head # <<>> /\ (\E k \in 1..Len(head) : head[k] # "/")
        THEN RStripSlash(head)
        ELSE head

SeqToSet(q) == {q[k] : k \in 1..Len(q)}

\* list(a set): its elements once each, in an order the code does not fix
ListsOf(S) ==
    {q \in [1..Cardinality(S) -> S] : \A j, k \in 1..Cardinality(S) : q[j] = q[k] => j = k}

\* lines 39-48: the possible (folders, files) results for a diff output
DiffResults(stdout) ==
    LET changed_files == SplitLines(Strip(stdout))
        files == SeqToSet(changed_files)
        folders == {Dirname(file) : file \in files} \ {<<>>}
    IN  ListsOf(folders) \X ListsOf(files)

ErrDiff == "Oshibka pri poluchenii izmenenij dlja kommita"

\* one call get_commit_diff(repo_path, commit_hash), the diff command ending
\* with `status` and writing `stdout`: the possible outcomes
GetCommitDiff(commit_hash, status, stdout) ==
    IF status = "notfound"
    THEN {[error |-> "FileNotFoundError", folders |-> <<>>, files |-> <<>>, printed |-> <<>>]}
    ELSE IF status = "nonzero"
    THEN {[error |-> "none", folders |-> <<>>, files |-> <<>>,
           printed |-> << <<ErrDiff, commit_hash>> >>]}
    ELSE {[error |-> "none", folders |-> r[1], files |-> r[2], printed |-> <<>>] :
             r \in DiffResults(stdout)}

DiffRecord(commit_hash, status, stdout, r) ==
    [commit |-> commit_hash, status |-> status, stdout |-> stdout,
     error |-> r.error, folders |-> r.folders, files |-> r.files]

get_commit_diff ==
    /\ pc = "get_commit_diff"
    /\ \E status \in RunOutcomes, stdout \in TextsOver(DiffAlphabet, MaxDiffLen) :
         /\ status # "ok" => stdout = <<>>
         /\ \E r \in GetCommitDiff(commits[1][1], status, stdout) :
              /\ diff_log' = Append(diff_log, DiffRecord(commits[1][1], status, stdout, r))
              /\ printed' = printed \o r.printed
              /\ raised' = r.error
              /\ pc' = IF r.error = "none" THEN Return ELSE "raised"
              /\ stack' = IF r.error = "none" THEN ReturnStack ELSE <<>>
    /\ UNCHANGED << log_status, log_stdout, commits, commit_data, idx,
                    mermaid_graph, temp_exists, temp_text, run_log, pending >>

InitDiff ==
    /\ Idle
    /\ pc = "get_commit_diff"
    /\ stack = <<>>
    /\ log_status = "ok"
    /\ log_stdout = <<>>
    /\ commits \in {<< <<h, <<>> >> >> : h \in {<<"a">>, <<"b">>}}
    /\ mermaid_graph = <<>>
    /\ temp_exists = FALSE

NextDiff == get_commit_diff

SpecDiff == InitDiff /\ [][NextDiff]_vars

----------------------------------------------------------------------------
(* generate_mermaid_graph *)

Header == <<"g", "r", "a", "p", "h", " ", "T", "D", "\n">>

Br == <<"<", "b", "r", ">">>

\* the literals of lines 74, 77 and 78, one text element each
PapkiLabel == <<"Papki:">>

FajlyLabel == <<"Fajly:">>

NetIzmenenij == <<"Net izmenenij">>

\* sep.join(items)
RECURSIVE Join(_, _)
Join(sep, items) ==
    IF items = <<>> THEN <<>>
    ELSE IF Len(items) = 1 THEN items[1]
    ELSE items[1] \o sep \o Join(sep, Tail(items))

\* s.replace(ch, repl) for a one-character ch
RECURSIVE Replace(_, _, _)
Replace(s, ch, repl) ==
    IF s = <<>> THEN <<>>
    ELSE (IF Head(s) = ch THEN repl ELSE << Head(s) >>) \o Replace(Tail(s), ch, repl)

\* line 80
Escape(s) == Replace(Replace(s, "\"", <<"\\", "\"">>), "'", <<"\\", "'">>)

\* lines 70-78 with the second `if` turned into an `elif`
MutCommitText(data) ==
    IF data.folders # <<>> THEN PapkiLabel \o Br \o Join(Br, data.folders)
    ELSE IF data.files # <<>> THEN FajlyLabel \o Br \o Join(Br, data.files)
    ELSE NetIzmenenij

\* lines 70-78
CommitText(data) ==
    LET folder_items == IF data.folders # <<>>
                        THEN << PapkiLabel \o Br \o Join(Br, data.folders) >>
                        ELSE <<>>
        file_items == IF data.files # <<>>
                      THEN << FajlyLabel \o Br \o Join(Br, data.files) >>
                      ELSE <<>>
        changed_items == folder_items \o file_items
    IN  IF changed_items # <<>> THEN Join(Br, changed_items) ELSE NetIzmenenij

\* line 82
NodeLine(commit_hash, commit_text) ==
    <<" ", " ">> \o commit_hash \o <<"[", "\"">> \o commit_hash \o Br
        \o commit_text \o <<"\"", "]", "\n">>

\* line 85
EdgeLine(parent_hash, commit_hash) ==
    <<" ", " ">> \o parent_hash \o <<" ", "-", "-", ">", " ">> \o commit_hash \o <<"\n">>

\* lines 84-85
RECURSIVE EdgeLines(_, _)
EdgeLines(parents, commit_hash) ==
    IF parents = <<>> THEN <<>>
    ELSE EdgeLine(Head(parents), commit_hash) \o EdgeLines(Tail(parents), commit_hash)

\* commit_data[key] = value: a new key goes last, a known key keeps its place
DictSet(d, key, value) ==
    IF \E k \in 1..Len(d) : d[k].key = key
    THEN [k \in 1..Len(d) |-> IF d[k].key = key THEN value ELSE d[k]]
    ELSE Append(d, value)

\* the diff outputs the graph builder is run against
GraphDiffOutputs ==
    { <<>>,
      <<"a">>,
      <<"d", "/", "a">>,
      <<"d", "/", "a", "\n", "b">>,
      <<"q", "\"">>,
      <<"'", "q">> }

\* lines 57-58
graph_begin ==
    /\ pc = "generate_mermaid_graph"
    /\ mermaid_graph' = Header
    /\ commit_data' = <<>>
    /\ idx' = 1
    /\ pc' = IF commits = <<>> THEN "graph_return" ELSE "graph_fetch"
    /\ UNCHANGED << stack, raised, printed, log_status, log_stdout, commits, diff_log,
                    temp_exists, temp_text, run_log, pending >>

\* lines 60-66 with the diff of a commit id already in commit_data reused
MutGraphFetch ==
    /\ pc = "graph_fetch"
    /\ LET commit_hash == commits[idx][1]
           parent_hashes == commits[idx][2]
           known == {k \in 1..Len(commit_data) : commit_data[k].key = commit_hash}
       IN  \E status \in RunOutcomes, stdout \in GraphDiffOutputs :
             /\ status # "ok" => stdout = <<>>
             /\ \E r \in GetCommitDiff(commit_hash, status, stdout) :
                  /\ diff_log' = IF known = {} THEN Append(diff_log,
                                        DiffRecord(commit_hash, status, stdout, r))
                                  ELSE diff_log
                  /\ printed' = printed \o r.printed
                  /\ IF r.error # "none"
                     THEN /\ raised' = r.error
                          /\ pc' = "raised"
                          /\ stack' = <<>>
                          /\ UNCHANGED << commit_data, idx >>
                     ELSE /\ commit_data' = DictSet(commit_data, commit_hash,
                                               [key |-> commit_hash, parents |-> parent_hashes,
                                                folders |-> r.folders, files |-> r.files])
                          /\ idx' = IF idx < Len(commits) THEN idx + 1 ELSE 1
                          /\ pc' = IF idx < Len(commits) THEN "graph_fetch" ELSE "graph_emit"
                          /\ UNCHANGED << raised, stack >>
    /\ UNCHANGED << log_status, log_stdout, commits, mermaid_graph,
                    temp_exists, temp_text, run_log, pending >>

\* lines 60-66, one iteration
graph_fetch ==
    /\ pc = "graph_fetch"
    /\ LET commit_hash == commits[idx][1]
           parent_hashes == commits[idx][2]
       IN  \E status \in RunOutcomes, stdout \in GraphDiffOutputs :
             /\ status # "ok" => stdout = <<>>
             /\ \E r \in GetCommitDiff(commit_hash, status, stdout) :
                  /\ diff_log' = Append(diff_log, DiffRecord(commit_hash, status, stdout, r))
                  /\ printed' = printed \o r.printed
                  /\ IF r.error # "none"
                     THEN /\ raised' = r.error
                          /\ pc' = "raised"
                          /\ stack' = <<>>
                          /\ UNCHANGED << commit_data, idx >>
                     ELSE /\ commit_data' = DictSet(commit_data, commit_hash,
                                               [key |-> commit_hash, parents |-> parent_hashes,
                                                folders |-> r.folders, files |-> r.files])
                          /\ idx' = IF idx < Len(commits) THEN idx + 1 ELSE 1
                          /\ pc' = IF idx < Len(commits) THEN "graph_fetch" ELSE "graph_emit"
                          /\ UNCHANGED << raised, stack >>
    /\ UNCHANGED << log_status, log_stdout, commits, mermaid_graph,
                    temp_exists, temp_text, run_log, pending >>

\* lines 68-85, one iteration
graph_emit ==
    /\ pc = "graph_emit"
    /\ LET commit_hash == commit_data[idx].key
           data == commit_data[idx]
       IN  mermaid_graph' = mermaid_graph
                                \o NodeLine(commit_hash, Escape(CommitText(data)))
                                \o EdgeLines(data.parents, commit_hash)
    /\ idx' = IF idx < Len(commit_data) THEN idx + 1 ELSE idx
    /\ pc' = IF idx < Len(commit_data) THEN "graph_emit" ELSE "graph_return"
    /\ UNCHANGED << stack, raised, printed, log_status, log_stdout, commits, diff_log,
                    commit_data, temp_exists, temp_text, run_log, pending >>

\* line 87
graph_return ==
    /\ pc = "graph_return"
    /\ pc' = Return
    /\ stack' = ReturnStack
    /\ UNCHANGED << raised, printed, log_status, log_stdout, commits, diff_log,
                    commit_data, idx, mermaid_graph, temp_exists, temp_text, run_log,
                    pending >>

generate_mermaid_graph == graph_begin \/ graph_fetch \/ graph_emit \/ graph_return

CommitIds == {<<"a">>, <<"b">>}

\* the parent lists the graph builder is run against: a root commit, one
\* parent, two parents in an order, the same parent twice
ParentLists ==
    { <<>>,
      << <<"a">> >>,
      << <<"b">>, <<"a">> >>,
      << <<"a">>, <<"a">> >> }

CommitLists == UNION {[1..k -> CommitIds \X ParentLists] : k \in 0..MaxCommits}

InitGraph ==
    /\ Idle
    /\ pc = "generate_mermaid_graph"
    /\ stack = <<>>
    /\ log_status = "ok"
    /\ log_stdout = <<>>
    /\ commits \in CommitLists
    /\ mermaid_graph = <<>>
    /\ temp_exists = FALSE

NextGraph == generate_mermaid_graph

SpecGraph == InitGraph /\ [][NextGraph]_vars

----------------------------------------------------------------------------
(* generate_png_from_mermaid *)

(* The file system is taken to obey the calls made on an existing regular  *)
(* file: os.path.exists answers truly and os.remove removes.  open() may   *)
(* fail with OSError, and the failed open leaves temp.mmd as it was.       *)

ErrPng == "Oshibka pri sozdanii PNG"

\* lines 93-94
png_write ==
    /\ pc = "generate_png_from_mermaid"
    /\ \/ /\ temp_exists' = TRUE
          /\ temp_text' = mermaid_graph
          /\ pc' = "png_run"
          /\ UNCHANGED pending
       \/ /\ pending' = "OSError"
          /\ pc' = "png_finally"
          /\ UNCHANGED << temp_exists, temp_text >>
    /\ UNCHANGED << stack, raised, printed, log_status, log_stdout, commits, diff_log,
                    commit_data, idx, mermaid_graph, run_log >>

\* lines 96-101
png_run ==
    /\ pc = "png_run"
    /\ \E outcome \in RunOutcomes :
         /\ run_log' = Append(run_log, outcome)
         /\ printed' = IF outcome = "nonzero" THEN Append(printed, ErrPng) ELSE printed
         /\ pending' = IF outcome = "notfound" THEN "FileNotFoundError" ELSE pending
    /\ pc' = "png_finally"
    /\ UNCHANGED << stack, raised, log_status, log_stdout, commits, diff_log,
                    commit_data, idx, mermaid_graph, temp_exists, temp_text >>

\* lines 102-105 placed after the try statement: skipped by an exception
MutPngFinally ==
    /\ pc = "png_finally"
    /\ temp_exists' = IF pending = "none" THEN FALSE ELSE temp_exists
    /\ temp_text' = IF pending = "none" THEN <<>> ELSE temp_text
    /\ raised' = pending
    /\ pending' = "none"
    /\ pc' = IF pending = "none" THEN Return ELSE "raised"
    /\ stack' = IF pending = "none" THEN ReturnStack ELSE <<>>
    /\ UNCHANGED << printed, log_status, log_stdout, commits, diff_log,
                    commit_data, idx, mermaid_graph, run_log >>

\* lines 102-105, then the return or the exception in flight
png_finally ==
    /\ pc = "png_finally"
    /\ temp_exists' = FALSE
    /\ temp_text' = <<>>
    /\ raised' = pending
    /\ pending' = "none"
    /\ pc' = IF pending = "none" THEN Return ELSE "raised"
    /\ stack' = IF pending = "none" THEN ReturnStack ELSE <<>>
    /\ UNCHANGED << printed, log_status, log_stdout, commits, diff_log,
                    commit_data, idx, mermaid_graph, run_log >>

generate_png_from_mermaid == png_write \/ png_run \/ png_finally

InitPng ==
    /\ Idle
    /\ pc = "generate_png_from_mermaid"
    /\ stack = <<>>
    /\ log_status = "ok"
    /\ log_stdout = <<>>
    /\ commits = <<>>
    /\ mermaid_graph \in TextsOver({"g", "\n"}, MaxGraphLen)
    /\ temp_exists \in BOOLEAN

NextPng == generate_png_from_mermaid

SpecPng == InitPng /\ [][NextPng]_vars

----------------------------------------------------------------------------
(* main *)

NoCommits == "Ne udalos' poluchit' kommity iz repozitorija."

Completed == "Vizualizacija zavisimostej uspeshno zavershena."

\* line 118, the call
main_commits ==
    /\ pc = "main"
    /\ pc' = "get_git_commits"
    /\ stack' = <<"main_check">>
    /\ UNCHANGED << raised, printed, log_status, log_stdout, commits, diff_log,
                    commit_data, idx, mermaid_graph, temp_exists, temp_text, run_log,
                    pending >>

\* lines 119-123
main_check ==
    /\ pc = "main_check"
    /\ IF commits = <<>>
       THEN /\ printed' = Append(printed, NoCommits)
            /\ pc' = "done"
            /\ stack' = <<>>
       ELSE /\ pc' = "generate_mermaid_graph"
            /\ stack' = <<"main_render">>
            /\ UNCHANGED printed
    /\ UNCHANGED << raised, log_status, log_stdout, commits, diff_log,
                    commit_data, idx, mermaid_graph, temp_exists, temp_text, run_log,
                    pending >>

\* line 125, the call
main_render ==
    /\ pc = "main_render"
    /\ pc' = "generate_png_from_mermaid"
    /\ stack' = <<"main_finish">>
    /\ UNCHANGED << raised, printed, log_status, log_stdout, commits, diff_log,
                    commit_data, idx, mermaid_graph, temp_exists, temp_text, run_log,
                    pending >>

\* line 127
main_finish ==
    /\ pc = "main_finish"
    /\ printed' = Append(printed, Completed)
    /\ pc' = "done"
    /\ stack' = <<>>
    /\ UNCHANGED << raised, log_status, log_stdout, commits, diff_log,
                    commit_data, idx, mermaid_graph, temp_exists, temp_text, run_log,
                    pending >>

main == main_commits \/ main_check \/ main_render \/ main_finish

\* what `git log --pretty=format:%h %p` can write: every line starts with
\* the commit's short hash
GitLogTexts ==
    {t \in TextsOver(LogAlphabet, MainLogLen) :
        \A k \in 1..Len(SplitLines(t)) : Split(SplitLines(t)[k]) # <<>>}

\* the state after parse_args has accepted the three required arguments
Init ==
    /\ Idle
    /\ pc = "main"
    /\ stack = <<>>
    /\ log_status \in RunOutcomes
    /\ log_stdout \in GitLogTexts
    /\ log_status # "ok" => log_stdout = <<>>
    /\ commits = <<>>
    /\ mermaid_graph = <<>>
    /\ temp_exists \in BOOLEAN

Next ==
    \/ main
    \/ get_git_commits
    \/ generate_mermaid_graph
    \/ generate_png_from_mermaid

Spec == Init /\ [][Next]_vars

----------------------------------------------------------------------------
(* Lines and tokens of a text, stated by position *)

BreakPositions(s) == {k \in 1..Len(s) : s[k] = "\n"}

NthBreak(s, j) ==
    CHOOSE k \in BreakPositions(s) :
        Cardinality({m \in BreakPositions(s) : m < k}) = j - 1

NumLines(s) ==
    Cardinality(BreakPositions(s))
        + (IF s # <<>> /\ s[Len(s)] # "\n" THEN 1 ELSE 0)

LineOf(s, i) ==
    LET lo == IF i = 1 THEN 1 ELSE NthBreak(s, i - 1) + 1
        hi == IF i <= Cardinality(BreakPositions(s)) THEN NthBreak(s, i) - 1 ELSE Len(s)
    IN  SubSeq(s, lo, hi)

TokenSpans(l) ==
    {sp \in (1..Len(l)) \X (1..Len(l)) :
        /\ sp[1] <= sp[2]
        /\ \A k \in sp[1]..sp[2] : l[k] \notin Whitespace
        /\ sp[1] = 1 \/ l[sp[1] - 1] \in Whitespace
        /\ sp[2] = Len(l) \/ l[sp[2] + 1] \in Whitespace}

NthToken(l, j) ==
    LET sp == CHOOSE t \in TokenSpans(l) :
                  Cardinality({u \in TokenSpans(l) : u[1] < t[1]}) = j - 1
    IN  SubSeq(l, sp[1], sp[2])

TokensOf(l) == [j \in 1..Cardinality(TokenSpans(l)) |-> NthToken(l, j)]

AllLinesHaveToken(s) == \A i \in 1..NumLines(s) : TokenSpans(LineOf(s, i)) # {}

LogEnded == pc # "get_git_commits"

\* entry i of the result is (first token, remaining tokens) of line i
EntryMatchesLine(i) ==
    LET toks == TokensOf(LineOf(log_stdout, i))
    IN  /\ commits[i][1] = toks[1]
        /\ commits[i][2] = Tail(toks)

----------------------------------------------------------------------------
(* C3 *)

\* C3 (as stated): whenever the log command succeeds, get_git_commits returns
\* one (commit id, parents) entry per line of the output, in line order, for
\* every line, empty and whitespace-only lines included.
C3_EntryPerEveryLine ==
    (LogEnded /\ log_status = "ok") =>
        /\ pc = "done"
        /\ raised = "none"
        /\ Len(commits) = NumLines(log_stdout)
        /\ \A i \in 1..Len(commits) :
              TokenSpans(LineOf(log_stdout, i)) # {} => EntryMatchesLine(i)

\* C3 (amended): when the log command succeeds and every line of the output
\* holds at least one token, get_git_commits returns one entry per line, in
\* line order, the commit id being the line's first token and the parents the
\* remaining tokens in order; when some line is empty or whitespace-only it
\* returns nothing and IndexError leaves the function.
C3_EntryPerTokenLine ==
    (LogEnded /\ log_status = "ok") =>
        IF AllLinesHaveToken(log_stdout)
        THEN /\ pc = "done"
             /\ raised = "none"
             /\ Len(commits) = NumLines(log_stdout)
             /\ \A i \in 1..Len(commits) : EntryMatchesLine(i)
        ELSE /\ pc = "raised"
             /\ raised = "IndexError"

\* a commit with a parent followed by a root commit has been parsed
C3_Witness ==
    /\ pc = "done"
    /\ log_status = "ok"
    /\ Len(commits) = 2
    /\ commits[1][2] # <<>>
    /\ commits[2][2] = <<>>

----------------------------------------------------------------------------
(* C4 *)

\* the lines of a text, as a set: each starts at the start of the text or
\* after a line break, and runs up to the next line break or the end
LinesOf(s) ==
    LET bp == BreakPositions(s)
        starts == {a \in {1} \cup {k + 1 : k \in bp} : a <= Len(s)}
        EndOf(a) == IF \E k \in bp : k >= a
                    THEN (CHOOSE k \in bp : k >= a /\ \A m \in bp : m >= a => k <= m) - 1
                    ELSE Len(s)
    IN  {SubSeq(s, a, EndOf(a)) : a \in starts}

\* d is the immediate parent directory of path f: the part of f before its
\* last slash, without the slashes that end it (kept when it is slashes only)
IsParentDir(d, f) ==
    \E k \in 1..Len(f) :
        /\ f[k] = "/"
        /\ \A m \in (k + 1)..Len(f) : f[m] # "/"
        /\ \/ /\ \A m \in 1..k : f[m] = "/"
              /\ d = SubSeq(f, 1, k)
           \/ \E e \in 1..k :
                /\ f[e] # "/"
                /\ \A m \in (e + 1)..k : f[m] = "/"
                /\ d = SubSeq(f, 1, e)

NoDuplicates(q) == \A j, k \in 1..Len(q) : q[j] = q[k] => j = k

DiffEnded == pc # "get_commit_diff" /\ diff_log # <<>>

\* C4: when the diff command succeeds, files is without duplicates and is, as
\* a set, the set of lines of the output; directories is without duplicates
\* and is, as a set, the set of immediate parent directories of those files.
C4_FilesAreOutputLines ==
    (DiffEnded /\ diff_log[1].status = "ok") =>
        LET d == diff_log[1]
        IN  /\ NoDuplicates(d.files)
            /\ NoDuplicates(d.folders)
            /\ SeqToSet(d.files) = LinesOf(d.stdout)
            /\ \A x \in SeqToSet(d.folders) : \E f \in SeqToSet(d.files) : IsParentDir(x, f)
            /\ \A f \in SeqToSet(d.files) :
                  \A x \in TextsOver(DiffAlphabet, Len(f)) :
                      IsParentDir(x, f) => x \in SeqToSet(d.folders)

\* C4 without its first half: the directories are the immediate parents of
\* the files the function reports.
C4_FoldersAreParents ==
    (DiffEnded /\ diff_log[1].status = "ok") =>
        LET d == diff_log[1]
        IN  /\ NoDuplicates(d.files)
            /\ NoDuplicates(d.folders)
            /\ \A x \in SeqToSet(d.folders) : \E f \in SeqToSet(d.files) : IsParentDir(x, f)
            /\ \A f \in SeqToSet(d.files) :
                  \A x \in TextsOver(DiffAlphabet, Len(f)) :
                      IsParentDir(x, f) => x \in SeqToSet(d.folders)

----------------------------------------------------------------------------
(* The graph document, stated by position *)

Contains(s, sub) ==
    \E k \in 0..(Len(s) - Len(sub)) : SubSeq(s, k + 1, k + Len(sub)) = sub

StartsWith(s, pre) == Len(s) >= Len(pre) /\ SubSeq(s, 1, Len(pre)) = pre

EndsWith(s, suf) ==
    Len(s) >= Len(suf) /\ SubSeq(s, Len(s) - Len(suf) + 1, Len(s)) = suf

Arrow == <<" ", "-", "-", ">", " ">>

NumArrows(s) ==
    Cardinality({k \in 0..(Len(s) - Len(Arrow)) : SubSeq(s, k + 1, k + Len(Arrow)) = Arrow})

\* number of (entry, parent) occurrences among the first n input entries
RECURSIVE ParentsUpTo(_)
ParentsUpTo(n) == IF n = 0 THEN 0 ELSE ParentsUpTo(n - 1) + Len(commits[n][2])

\* the line on which entry i's node declaration is expected: after the
\* header and the node and edge lines of the entries before it
NodeLineNo(i) == 1 + i + ParentsUpTo(i - 1)

NodePrefix(id) == <<" ", " ">> \o id \o <<"[", "\"">> \o id \o Br

IsNodeLineOf(l, id) == StartsWith(l, NodePrefix(id)) /\ EndsWith(l, <<"\"", "]">>)

GraphDone == pc = "done" /\ raised = "none"

\* no commit id occurs in two entries of the input list
DistinctIds == \A i, j \in 1..Len(commits) : commits[i][1] = commits[j][1] => i = j

----------------------------------------------------------------------------
(* C5 *)

\* C5: the document holds one edge line "  <parent> --> <child>" for each
\* (entry, parent) occurrence of the input list, without deduplication: the
\* number of edge lines is the sum of the lengths of the parent lists, also
\* when a commit id occurs in more than one entry.
C5_EdgePerParentOccurrence ==
    GraphDone =>
        /\ NumArrows(mermaid_graph) = ParentsUpTo(Len(commits))
        /\ \A i \in 1..Len(commits) : \A j \in 1..Len(commits[i][2]) :
              Contains(mermaid_graph, EdgeLine(commits[i][2][j], commits[i][1]))

\* the statement of C5 on input lists without a repeated commit id
C5_OnDistinctIds == DistinctIds => C5_EdgePerParentOccurrence

----------------------------------------------------------------------------
(* C8 *)

\* C8: the document is the header line "graph TD", then for each entry of the
\* input list, in input order, one node declaration line followed at once
\* by that entry's edge lines in parent order, also when a commit id occurs
\* in more than one entry.
C8_NodePerEntryInOrder ==
    GraphDone =>
        /\ LineOf(mermaid_graph, 1) = <<"g", "r", "a", "p", "h", " ", "T", "D">>
        /\ NumLines(mermaid_graph) = 1 + Len(commits) + ParentsUpTo(Len(commits))
        /\ \A i \in 1..Len(commits) :
              /\ IsNodeLineOf(LineOf(mermaid_graph, NodeLineNo(i)), commits[i][1])
              /\ \A j \in 1..Len(commits[i][2]) :
                    LineOf(mermaid_graph, NodeLineNo(i) + j) \o <<"\n">>
                        = EdgeLine(commits[i][2][j], commits[i][1])

\* the statement of C8 on input lists without a repeated commit id
C8_OnDistinctIds == DistinctIds => C8_NodePerEntryInOrder

----------------------------------------------------------------------------
(* C10 *)

\* C10: an entry whose diff command failed, or reported no file, still has
\* its node declaration, labelled with the commit id and the placeholder,
\* followed by all of its parent edges; and every entry has the node and
\* edge lines that its own diff result gives, whatever the other diffs did.
C10_FailedDiffKeepsNode ==
    GraphDone =>
        \A i \in 1..Len(commits) :
            LET id == commits[i][1]
                d == diff_log[i]
            IN  /\ d.files = <<>> =>
                      Contains(mermaid_graph,
                               NodePrefix(id) \o NetIzmenenij \o <<"\"", "]", "\n">>
                                   \o EdgeLines(commits[i][2], id))
                /\ d.files # <<>> =>
                      \E l \in LinesOf(mermaid_graph) :
                          /\ IsNodeLineOf(l, id)
                          /\ ~Contains(l, NetIzmenenij)

\* the statement of C10 on input lists without a repeated commit id
C10_OnDistinctIds == DistinctIds => C10_FailedDiffKeepsNode

----------------------------------------------------------------------------
(* C6 *)

Quotes == {"\"", "'"}

QuotesUpTo(f, k) == Cardinality({m \in 1..k : f[m] \in Quotes})

\* path f with a backslash put before each of its quote characters
EscapedForm(f) ==
    [p \in 1..(Len(f) + QuotesUpTo(f, Len(f))) |->
        IF \E k \in 1..Len(f) : p = k + QuotesUpTo(f, k)
        THEN f[CHOOSE k \in 1..Len(f) : p = k + QuotesUpTo(f, k)]
        ELSE "\\"]

\* the diff result generate_mermaid_graph holds for commit id `id` when it
\* assembles the text: that of the last get_commit_diff call for `id`
LastDiffOf(id) ==
    diff_log[CHOOSE k \in 1..Len(diff_log) :
                /\ diff_log[k].commit = id
                /\ \A m \in (k + 1)..Len(diff_log) : diff_log[m].commit # id]

\* C6 (as stated): for every input entry and every file path its diff
\* reported, the node label of that commit holds the path character for
\* character, quote characters included.
C6_PathVerbatimInLabel ==
    GraphDone =>
        LET lines == LinesOf(mermaid_graph)
        IN  \A i \in 1..Len(commits) : \A f \in SeqToSet(diff_log[i].files) :
                \E l \in lines :
                    IsNodeLineOf(l, commits[i][1]) /\ Contains(l, f)

\* C6 (amended): for every commit id of the input and every file path in the
\* diff result held for it (the last get_commit_diff call for that id), the
\* node label of that commit holds the path with a backslash before each
\* double or single quote character; a path without quote characters is
\* held character for character.
C6_EscapedPathInLabel ==
    GraphDone =>
        LET lines == LinesOf(mermaid_graph)
        IN  \A i \in 1..Len(commits) : \A f \in SeqToSet(LastDiffOf(commits[i][1]).files) :
                \E l \in lines :
                    /\ IsNodeLineOf(l, commits[i][1])
                    /\ Contains(l, EscapedForm(f))
                    /\ (\A k \in 1..Len(f) : f[k] \notin Quotes) => Contains(l, f)

\* a graph was built from a diff that reported a path with a quote
\* character beside a diff that reported a path in a directory
C6_Witness ==
    /\ GraphDone
    /\ \E i \in 1..Len(commits) : \E f \in SeqToSet(LastDiffOf(commits[i][1]).files) :
          \E k \in 1..Len(f) : f[k] \in Quotes
    /\ \E i \in 1..Len(commits) : LastDiffOf(commits[i][1]).folders # <<>>

----------------------------------------------------------------------------
(* C9 *)

\* C9: get_commit_diff is called once per input entry, in input order, and
\* all of these calls are over before the first node or edge line is added
\* to the text; none happens once text assembly has started.
C9_DiffsBeforeAssembly ==
    /\ Len(diff_log) <= Len(commits)
    /\ \A k \in 1..Len(diff_log) : diff_log[k].commit = commits[k][1]
    /\ pc \in {"graph_emit", "graph_return", "done"} => Len(diff_log) = Len(commits)
    /\ mermaid_graph \notin {<<>>, Header} => Len(diff_log) = Len(commits)

\* text assembly is under way for two entries of the same commit id
C9_Witness ==
    /\ pc = "graph_return"
    /\ mermaid_graph # Header
    /\ Len(commits) = 2
    /\ commits[1][1] = commits[2][1]
    /\ Len(diff_log) = 2

----------------------------------------------------------------------------
(* C2 *)

PngEnded == pc \in {"done", "raised"}

\* C2: whenever generate_png_from_mermaid has ended, by a return or by an
\* exception that leaves it, temp.mmd does not exist, whether or not it
\* existed before the call.
C2_TempRemovedAtExit == PngEnded => ~temp_exists

\* temp.mmd was written, the renderer could not be started, and the
\* exception has left the function
C2_Witness ==
    /\ pc = "raised"
    /\ raised = "FileNotFoundError"
    /\ run_log = <<"notfound">>
    /\ mermaid_graph # <<>>

----------------------------------------------------------------------------
(* C1 *)

IsPrinted(msg) == \E k \in 1..Len(printed) : printed[k] = msg

LogCallEnded == pc \notin {"main", "get_git_commits"}

RenderCallEnded == run_log # <<>> /\ pc \in {"main_finish", "done", "raised"}

\* C1: a failure of an external command, a non-zero exit status or an
\* executable that cannot be started, ends with a message printed and the
\* empty result returned, and no exception reaches the caller: for the log
\* command, for every diff command and for the renderer.
C1_FailuresNeverRaise ==
    /\ (LogCallEnded /\ log_status # "ok") =>
          /\ raised = "none"
          /\ commits = <<>>
          /\ IsPrinted(ErrCommits)
    /\ \A k \in 1..Len(diff_log) :
          diff_log[k].status # "ok" =>
              /\ diff_log[k].error = "none"
              /\ diff_log[k].folders = <<>> /\ diff_log[k].files = <<>>
              /\ IsPrinted(<<ErrDiff, diff_log[k].commit>>)
    /\ (RenderCallEnded /\ run_log[1] # "ok") =>
          /\ raised = "none"
          /\ IsPrinted(ErrPng)

\* C1 for the failures the code handles: a non-zero exit status of an
\* external command ends with a message printed and the empty result.
C1_NonZeroExitNeverRaises ==
    /\ (LogCallEnded /\ log_status = "nonzero") =>
          /\ raised = "none"
          /\ commits = <<>>
          /\ IsPrinted(ErrCommits)
    /\ \A k \in 1..Len(diff_log) :
          diff_log[k].status = "nonzero" =>
              /\ diff_log[k].error = "none"
              /\ diff_log[k].folders = <<>> /\ diff_log[k].files = <<>>
              /\ IsPrinted(<<ErrDiff, diff_log[k].commit>>)
    /\ (RenderCallEnded /\ run_log[1] = "nonzero") => IsPrinted(ErrPng)

----------------------------------------------------------------------------
(* C7 *)

MainEnded == pc \in {"done", "raised"}

\* C7: main stops early only on an empty commit list.  With an empty list no
\* diff command and no renderer is run, no graph is built and the
\* completion message is not printed; with a non-empty list the graph is
\* built, the renderer is invoked exactly once and the completion message is
\* printed.
C7_OnlyEmptyListStopsEarly ==
    MainEnded =>
        /\ raised = "none"
        /\ IF commits = <<>>
           THEN /\ diff_log = <<>>
                /\ run_log = <<>>
                /\ mermaid_graph = <<>>
                /\ ~IsPrinted(Completed)
           ELSE /\ StartsWith(mermaid_graph, Header)
                /\ Len(run_log) = 1
                /\ printed # <<>> /\ printed[Len(printed)] = Completed

\* C7 for the runs no exception leaves: the same, given that main returns.
C7_ReturningRuns ==
    (pc = "done") =>
        IF commits = <<>>
        THEN /\ diff_log = <<>>
             /\ run_log = <<>>
             /\ mermaid_graph = <<>>
             /\ ~IsPrinted(Completed)
        ELSE /\ StartsWith(mermaid_graph, Header)
             /\ Len(diff_log) = Len(commits)
             /\ Len(run_log) = 1
             /\ printed # <<>> /\ printed[Len(printed)] = Completed

====
